---- MODULE Spec2Model ----
(***************************************************************************)
(* Model of ansible_modules/irods_build_plugin.py: one run of main().      *)
(* The run probes the host platform, picks a Builder subclass and its      *)
(* strategy class, and, for the three GenericStrategy subclasses, runs     *)
(* build(): install dependencies, clone and check out the source, run the  *)
(* build script, copy the build output.                                    *)
(*                                                                         *)
(* File names are sequences of characters, so that the substring test of   *)
(* install_dev_and_runtime_packages is computed on the names.              *)
(***************************************************************************)
EXTENDS Integers, Sequences, FiniteSets, TLC

VARIABLES
    params,          \* module.params, the BuildRequest
    platform,        \* get_platform() of the host
    distribution,    \* get_distribution() of the host (None when unknown)
    listing,         \* os.listdir(irods_packages_directory), in listing order
    pc,              \* the statement of the run that executes next
    builder_class,   \* class chosen by Builder.__new__
    strategy,        \* class of self.strategy
    outcome,         \* how the run ended: exit_json, fail_json or an exception
    reports,         \* results handed to module.exit_json
    started,         \* build steps entered, in order
    completed,       \* build steps that returned normally, in order
    calls,           \* external processes and filesystem operations invoked
    installed,       \* OS packages installed by name
    installed_files, \* package files installed, as [dir, name]
    downloaded,      \* files fetched into the working directory
    local_plugin_dir_state,  \* state of ~/<plugin_name>
    build_dir,       \* contents of ~/<plugin_name>/build, or Absent
    output_dir       \* contents of output_directory, or Absent

inputs == <<params, platform, distribution, listing>>
control == <<pc, builder_class, strategy, outcome, reports, started, completed>>
host == <<calls, installed, installed_files, downloaded, local_plugin_dir_state, build_dir, output_dir>>
vars == <<inputs, control, host>>

----------------------------------------------------------------------------
(* Bounds *)

MaxListLen == 3

----------------------------------------------------------------------------
(* Characters and strings *)

\* Python's `m in x` on strings
Contains(m, x) ==
    \E i \in 1..(Len(x) - Len(m) + 1) : SubSeq(x, i, i + Len(m) - 1) = m

DevMarker == <<"i","r","o","d","s","-","d","e","v","-">>
RuntimeMarker == <<"i","r","o","d","s","-","r","u","n","t","i","m","e","-">>
IcatMarker == <<"i","r","o","d","s","-","i","c","a","t","-">>

PackageFiles ==
    { DevMarker \o <<"1">>, DevMarker \o <<"2">>,
      RuntimeMarker \o <<"1">>, RuntimeMarker \o <<"2">>,
      IcatMarker \o <<"1">> }

Listings ==
    UNION { { s \in [1..n -> PackageFiles] :
                \A i, j \in 1..n : i # j => s[i] # s[j] } : n \in 0..MaxListLen }

----------------------------------------------------------------------------
(* Inputs *)

None == "None"
\* a directory: absent, or present with a set of entries
Absent == [exists |-> FALSE, files |-> {}]
Dir(files) == [exists |-> TRUE, files |-> files]

PlatformTags ==
    { <<"Linux", d>> : d \in {"Centos", "Ubuntu", "Opensuse ", "Opensuse", "Arch", "centos"} }
    \cup { <<"Darwin", None>>, <<"Generic", None>> }

BuildRequests ==
    { [ output_root_directory |-> "/out",
        irods_packages_root_directory |-> "/pkgs",
        plugin_name |-> "irods_resource_plugin_s3",
        target_os_list |-> <<"Ubuntu_14">>,
        git_repository |-> "https://example/irods_resource_plugin_s3.git",
        git_commitish |-> c,
        debug_build |-> FALSE ] : c \in {"4.1.8", "master"} }

----------------------------------------------------------------------------
(* Builder and its subclasses *)

BuilderClasses == <<"CentOSBuilder", "UbuntuBuilder", "OpenSuseBuilder">>

class_platform(cls) ==
    CASE cls = "Builder" -> "Generic"
      [] cls = "CentOSBuilder" -> "Linux"
      [] cls = "UbuntuBuilder" -> "Linux"
      [] cls = "OpenSuseBuilder" -> "Linux"

class_distribution(cls) ==
    CASE cls = "Builder" -> None
      [] cls = "CentOSBuilder" -> "Centos"
      [] cls = "UbuntuBuilder" -> "Ubuntu"
      [] cls = "OpenSuseBuilder" -> "Opensuse "

strategy_class_swapped(cls) ==
    CASE cls = "Builder" -> "UnimplementedStrategy"
      [] cls = "CentOSBuilder" -> "RedHatStrategy"
      [] cls = "UbuntuBuilder" -> "RedHatStrategy"
      [] cls = "OpenSuseBuilder" -> "SuseStrategy"

strategy_class(cls) ==
    CASE cls = "Builder" -> "UnimplementedStrategy"
      [] cls = "CentOSBuilder" -> "RedHatStrategy"
      [] cls = "UbuntuBuilder" -> "DebianStrategy"
      [] cls = "OpenSuseBuilder" -> "SuseStrategy"

load_platform_subclass_centos_fallback(p, d) ==
    LET specific == { i \in 1..Len(BuilderClasses) :
                        /\ d # None
                        /\ class_distribution(BuilderClasses[i]) # None
                        /\ class_distribution(BuilderClasses[i]) = d
                        /\ class_platform(BuilderClasses[i]) = p }
    IN  IF specific # {}
        THEN BuilderClasses[CHOOSE i \in specific : \A j \in specific : j <= i]
        ELSE "CentOSBuilder"

\* Builder.__new__: the subclass whose platform and distribution equal the
\* detected ones, else a subclass for the platform with no distribution,
\* else Builder itself.
load_platform_subclass(p, d) ==
    LET specific == { i \in 1..Len(BuilderClasses) :
                        /\ d # None
                        /\ class_distribution(BuilderClasses[i]) # None
                        /\ class_distribution(BuilderClasses[i]) = d
                        /\ class_platform(BuilderClasses[i]) = p }
        generic == { i \in 1..Len(BuilderClasses) :
                        /\ class_platform(BuilderClasses[i]) = p
                        /\ class_distribution(BuilderClasses[i]) = None }
    IN  IF specific # {}
        THEN BuilderClasses[CHOOSE i \in specific : \A j \in specific : j <= i]
        ELSE IF generic # {}
        THEN BuilderClasses[CHOOSE i \in generic : \A j \in generic : j <= i]
        ELSE "Builder"

----------------------------------------------------------------------------
(* UnimplementedStrategy *)

UnimplementedStrategyAttrs == {"__init__", "build", "unimplemented_error"}

\* the message assembled by unimplemented_error, as its pieces
unimplemented_error(p, d) ==
    LET msg_platform == IF d # None THEN <<p, " (", d, ")">> ELSE <<p>>
    IN  <<"irods_build_plugin module cannot be used on platform ">> \o msg_platform

NoOutcome == [kind |-> "none", detail |-> <<>>]
fail_json(msg) == [kind |-> "fail_json", detail |-> msg]
Raise(exc) == [kind |-> "exception", detail |-> <<exc>>]

\* UnimplementedStrategy.__init__: self.unimplmented_error()
UnimplementedStrategy_init(p, d) ==
    IF "unimplmented_error" \in UnimplementedStrategyAttrs
    THEN fail_json(unimplemented_error(p, d))
    ELSE Raise("AttributeError")

----------------------------------------------------------------------------
(* GenericStrategy and its subclasses *)

RedHatDependencies ==
    <<"git", "g++", "make", "help2man", "python-devel", "unixODBC", "fuse-devel",
      "curl-devel", "bzip2-devel", "zlib-devel", "pam-devel", "openssl-devel",
      "libxml2-devel", "krb5-devel", "unixODBC-devel", "perl-JSON",
      "globus-proxy-utils", "globus-gssapi-gsi-devel">>

DebianDependencies ==
    <<"git", "g++", "make", "help2man", "python-dev", "unixodbc", "libfuse-dev",
      "libcurl4-gnutls-dev", "libbz2-dev", "zlib1g-dev", "libpam0g-dev", "libssl-dev",
      "libxml2-dev", "libkrb5-dev", "unixodbc-dev", "libjson-perl", "globus-gsi",
      "libglobus-gsi-callback-dev", "libglobus-gsi-proxy-core-dev",
      "libglobus-gssapi-gsi-dev", "libglobus-callout-dev", "libglobus-gss-assist-dev">>

SuseDependencies ==
    <<"python-devel", "unixODBC", "fuse-devel", "libcurl-devel", "libbz2-devel",
      "libopenssl-devel", "libxml2-devel", "krb5-devel", "perl-JSON", "unixODBC-devel">>

building_dependencies(s) ==
    CASE s = "RedHatStrategy" -> RedHatDependencies
      [] s = "DebianStrategy" -> DebianDependencies
      [] s = "SuseStrategy" -> SuseDependencies

GlobusRepoUrl == "http://toolkit.globus.org/ftppub/gt6/installers/repo/globus-toolkit-repo_latest_all.deb"
GlobusRepoDeb == [dir |-> <<".">>, name |-> <<"globus-toolkit-repo_latest_all.deb">>]

get_irods_platform_string(p, d) == <<p, d>>

\* os.path.join, on paths kept as sequences of components
join(dir, rest) == dir \o rest

irods_packages_directory(prm, p, d) ==
    join(<<prm.irods_packages_root_directory>>, get_irods_platform_string(p, d))

output_directory(prm, p, d) ==
    join(<<prm.output_root_directory>>, get_irods_platform_string(p, d))

local_plugin_dir(prm) == <<"~", prm.plugin_name>>

Range(s) == { s[i] : i \in 1..Len(s) }

FilterAll(marker, names) == names

\* filter(lambda x: marker in x, names)
Filter(marker, names) == SelectSeq(names, LAMBDA x : Contains(marker, x))

BuildSequenceSwapped ==
    <<"install_building_dependencies", "build_plugin_package",
      "prepare_git_repository", "copy_build_output">>

\* GenericStrategy.build
BuildSequence ==
    <<"install_building_dependencies", "prepare_git_repository",
      "build_plugin_package", "copy_build_output">>

FirstPcGeneric(step, s) ==
    CASE step = "install_building_dependencies" -> "install_os_packages"
      [] step = "prepare_git_repository" -> "git_clone"
      [] step = "build_plugin_package" -> "makedirs"
      [] step = "copy_build_output" -> "copytree"

\* the first statement of a step; DebianStrategy overrides
\* install_building_dependencies
FirstPc(step, s) ==
    CASE step = "install_building_dependencies" ->
            IF s = "DebianStrategy" THEN "wget" ELSE "install_os_packages"
      [] step = "prepare_git_repository" -> "git_clone"
      [] step = "build_plugin_package" -> "makedirs"
      [] step = "copy_build_output" -> "copytree"

StepIndex(step) == CHOOSE i \in 1..Len(BuildSequence) : BuildSequence[i] = step

\* where control goes when `step` returns: the next step of build(), or
\* back to main()
AfterStep(step, s) ==
    IF StepIndex(step) < Len(BuildSequence)
    THEN [pc |-> FirstPc(BuildSequence[StepIndex(step) + 1], s),
          started |-> <<BuildSequence[StepIndex(step) + 1]>>]
    ELSE [pc |-> "exit_json", started |-> <<>>]

run_command_unchecked(rc, next, cmd) == [pc |-> next, outcome |-> NoOutcome]

\* module.run_command(cmd, check_rc=True): a non-zero return code ends the
\* run through fail_json
run_command(rc, next, cmd) ==
    IF rc = 0
    THEN [pc |-> next, outcome |-> NoOutcome]
    ELSE [pc |-> "done", outcome |-> fail_json(<<cmd, "failed">>)]

copytree_overwrite(src, dst) ==
    IF src = Absent THEN [ok |-> FALSE, dst |-> dst]
    ELSE IF dst = Absent THEN [ok |-> TRUE, dst |-> src]
    ELSE [ok |-> TRUE, dst |-> Dir(dst.files \cup src.files)]

\* shutil.copytree(src, dst): lists src, creates dst (which must not
\* exist), copies the entries
copytree(src, dst) ==
    IF src = Absent THEN [ok |-> FALSE, dst |-> dst]
    ELSE IF dst # Absent THEN [ok |-> FALSE, dst |-> dst]
    ELSE [ok |-> TRUE, dst |-> src]

MainResultUnchanged(prm) == [changed |-> FALSE, complex_args |-> prm]

\* main: result['changed'] = True; result['complex_args'] = module.params
MainResult(prm) == [changed |-> TRUE, complex_args |-> prm]

Call(cmd, arg, ok) == [cmd |-> cmd, arg |-> arg, ok |-> ok]


\* install_os_packages / install_os_packages_from_files of
\* local_ansible_utils_extension: the package manager either installs the
\* packages or the helper raises
PackageManager(ok, next) ==
    IF ok
    THEN [pc |-> next, outcome |-> NoOutcome]
    ELSE [pc |-> "done", outcome |-> Raise("PackageManagerError")]

\* what `git clone` can return for a target in the given state
git_clone_rcs(dir_state) == IF dir_state = "nonempty" THEN {128} ELSE {0, 128}

----------------------------------------------------------------------------
(* The run *)

Init ==
    /\ params \in BuildRequests
    /\ \E tag \in PlatformTags : platform = tag[1] /\ distribution = tag[2]
    /\ listing \in Listings
    /\ pc = "Builder"
    /\ builder_class = None
    /\ strategy = None
    /\ outcome = NoOutcome
    /\ reports = <<>>
    /\ started = <<>>
    /\ completed = <<>>
    /\ calls = <<>>
    /\ installed = {}
    /\ installed_files = {}
    /\ downloaded = {}
    /\ local_plugin_dir_state \in {"absent", "empty", "nonempty"}
    /\ build_dir = Absent
    /\ output_dir \in {Absent, Dir({}), Dir({"old.deb"})}

\* main: builder = Builder(module), the __new__ half
BuilderNew ==
    /\ pc = "Builder"
    /\ builder_class' = load_platform_subclass(platform, distribution)
    /\ pc' = "Builder_init"
    /\ UNCHANGED <<inputs, host, strategy, outcome, reports, started, completed>>

\* Builder.__init__: self.strategy = self.strategy_class(module)
BuilderInit ==
    /\ pc = "Builder_init"
    /\ strategy' = strategy_class(builder_class)
    /\ IF strategy' = "UnimplementedStrategy"
       THEN /\ outcome' = UnimplementedStrategy_init(platform, distribution)
            /\ pc' = "done"
       ELSE /\ outcome' = outcome
            /\ pc' = "build"
    /\ UNCHANGED <<inputs, host, builder_class, reports, started, completed>>

\* main: builder.build() -> self.strategy.build()
BuilderBuild ==
    /\ pc = "build"
    /\ started' = Append(started, BuildSequence[1])
    /\ pc' = FirstPc(BuildSequence[1], strategy)
    /\ UNCHANGED <<inputs, host, builder_class, strategy, outcome, reports, completed>>

\* DebianStrategy.install_building_dependencies: wget of the repository
\* descriptor
Wget ==
    /\ pc = "wget"
    /\ \E rc \in {0, 1} :
         LET r == run_command(rc, "install_repo_deb", "wget") IN
         /\ calls' = Append(calls, Call("wget", <<GlobusRepoUrl>>, rc = 0))
         /\ downloaded' = IF rc = 0 THEN downloaded \cup {GlobusRepoDeb} ELSE downloaded
         /\ pc' = r.pc
         /\ outcome' = r.outcome
    /\ UNCHANGED <<inputs, builder_class, strategy, reports, started, completed,
                   installed, installed_files, local_plugin_dir_state, build_dir, output_dir>>

\* DebianStrategy.install_building_dependencies: install the descriptor
InstallRepoDeb ==
    /\ pc = "install_repo_deb"
    /\ \E ok \in BOOLEAN :
         LET r == PackageManager(ok, "install_os_packages") IN
         /\ calls' = Append(calls, Call("install_os_packages_from_files", <<GlobusRepoDeb>>, ok))
         /\ installed_files' = IF ok THEN installed_files \cup {GlobusRepoDeb} ELSE installed_files
         /\ pc' = r.pc
         /\ outcome' = r.outcome
    /\ UNCHANGED <<inputs, builder_class, strategy, reports, started, completed,
                   installed, downloaded, local_plugin_dir_state, build_dir, output_dir>>

\* GenericStrategy.install_building_dependencies:
\* install_os_packages(self.building_dependencies)
InstallOsPackages ==
    /\ pc = "install_os_packages"
    /\ \E ok \in BOOLEAN :
         LET r == PackageManager(ok, "install_dev")
             deps == building_dependencies(strategy) IN
         /\ calls' = Append(calls, Call("install_os_packages", deps, ok))
         /\ installed' = IF ok THEN installed \cup Range(deps) ELSE installed
         /\ pc' = r.pc
         /\ outcome' = r.outcome
    /\ UNCHANGED <<inputs, builder_class, strategy, reports, started, completed,
                   installed_files, downloaded, local_plugin_dir_state, build_dir, output_dir>>

\* install_dev_and_runtime_packages, the development package
InstallDev ==
    /\ pc = "install_dev"
    /\ LET matches == Filter(DevMarker, listing) IN
       \/ /\ matches = <<>>
          /\ outcome' = Raise("IndexError")
          /\ pc' = "done"
          /\ UNCHANGED <<calls, installed_files>>
       \/ /\ matches # <<>>
          /\ \E ok \in BOOLEAN :
               LET r == PackageManager(ok, "install_runtime")
                   dev_package == [dir |-> irods_packages_directory(params, platform, distribution),
                                    name |-> matches[1]] IN
               /\ calls' = Append(calls, Call("install_os_packages_from_files", <<dev_package>>, ok))
               /\ installed_files' = IF ok THEN installed_files \cup {dev_package} ELSE installed_files
               /\ pc' = r.pc
               /\ outcome' = r.outcome
    /\ UNCHANGED <<inputs, builder_class, strategy, reports, started, completed,
                   installed, downloaded, local_plugin_dir_state, build_dir, output_dir>>

\* install_dev_and_runtime_packages, the runtime package; the step
\* install_building_dependencies returns after it
InstallRuntime ==
    /\ pc = "install_runtime"
    /\ LET matches == Filter(RuntimeMarker, listing)
           after == AfterStep("install_building_dependencies", strategy) IN
       \/ /\ matches = <<>>
          /\ outcome' = Raise("IndexError")
          /\ pc' = "done"
          /\ UNCHANGED <<calls, installed_files, started, completed>>
       \/ /\ matches # <<>>
          /\ \E ok \in BOOLEAN :
               LET r == PackageManager(ok, after.pc)
                   runtime_package == [dir |-> irods_packages_directory(params, platform, distribution),
                                        name |-> matches[1]] IN
               /\ calls' = Append(calls, Call("install_os_packages_from_files", <<runtime_package>>, ok))
               /\ installed_files' = IF ok THEN installed_files \cup {runtime_package} ELSE installed_files
               /\ pc' = r.pc
               /\ outcome' = r.outcome
               /\ completed' = IF ok THEN Append(completed, "install_building_dependencies")
                                     ELSE completed
               /\ started' = IF ok THEN started \o after.started ELSE started
    /\ UNCHANGED <<inputs, builder_class, strategy, reports,
                   installed, downloaded, local_plugin_dir_state, build_dir, output_dir>>

\* prepare_git_repository: git clone --recursive
GitClone ==
    /\ pc = "git_clone"
    /\ \E rc \in git_clone_rcs(local_plugin_dir_state), repo_has_build \in BOOLEAN :
         LET r == run_command(rc, "git_checkout", "git clone") IN
         /\ calls' = Append(calls, Call("git clone",
                                        <<params.git_repository, local_plugin_dir(params)>>, rc = 0))
         /\ local_plugin_dir_state' = IF rc = 0 THEN "cloned" ELSE local_plugin_dir_state
         /\ build_dir' = IF rc = 0 /\ repo_has_build THEN Dir({"CMakeLists.txt"}) ELSE build_dir
         /\ pc' = r.pc
         /\ outcome' = r.outcome
    /\ UNCHANGED <<inputs, builder_class, strategy, reports, started, completed,
                   installed, installed_files, downloaded, output_dir>>

\* prepare_git_repository: git checkout; the step returns after it
GitCheckout ==
    /\ pc = "git_checkout"
    /\ \E rc \in {0, 1} :
         LET after == AfterStep("prepare_git_repository", strategy)
             r == run_command(rc, after.pc, "git checkout") IN
         /\ calls' = Append(calls, Call("git checkout", <<params.git_commitish>>, rc = 0))
         /\ pc' = r.pc
         /\ outcome' = r.outcome
         /\ completed' = IF r.pc # "done" THEN Append(completed, "prepare_git_repository")
                         ELSE completed
         /\ started' = IF r.pc # "done" THEN started \o after.started ELSE started
    /\ UNCHANGED <<inputs, builder_class, strategy, reports,
                   installed, installed_files, downloaded, local_plugin_dir_state, build_dir, output_dir>>

\* build_plugin_package: os.makedirs(<local_plugin_dir>/build)
Makedirs ==
    /\ pc = "makedirs"
    /\ calls' = Append(calls, Call("makedirs", join(local_plugin_dir(params), <<"build">>),
                                   build_dir = Absent))
    /\ IF build_dir = Absent
       THEN /\ build_dir' = Dir({})
            /\ pc' = "build_sh"
            /\ outcome' = outcome
       ELSE /\ build_dir' = build_dir
            /\ pc' = "done"
            /\ outcome' = Raise("OSError")
    /\ UNCHANGED <<inputs, builder_class, strategy, reports, started, completed,
                   installed, installed_files, downloaded, local_plugin_dir_state, output_dir>>

\* build_plugin_package: sudo ./packaging/build.sh -r; the step returns
\* after it
BuildSh ==
    /\ pc = "build_sh"
    /\ \E rc \in {0, 1}, artifacts \in {Absent, Dir({}), Dir({"plugin.deb"})} :
         LET after == AfterStep("build_plugin_package", strategy)
             r == run_command(rc, after.pc, "build.sh") IN
         /\ calls' = Append(calls, Call("build.sh",
                                        get_irods_platform_string(platform, distribution), rc = 0))
         /\ build_dir' = artifacts
         /\ pc' = r.pc
         /\ outcome' = r.outcome
         /\ completed' = IF r.pc # "done" THEN Append(completed, "build_plugin_package")
                         ELSE completed
         /\ started' = IF r.pc # "done" THEN started \o after.started ELSE started
    /\ UNCHANGED <<inputs, builder_class, strategy, reports,
                   installed, installed_files, downloaded, local_plugin_dir_state, output_dir>>

\* copy_build_output: shutil.copytree(<local_plugin_dir>/build, output_directory)
Copytree ==
    /\ pc = "copytree"
    /\ LET r == copytree(build_dir, output_dir)
           after == AfterStep("copy_build_output", strategy) IN
       /\ calls' = Append(calls, Call("copytree",
                                      <<join(local_plugin_dir(params), <<"build">>),
                                        output_directory(params, platform, distribution)>>, r.ok))
       /\ output_dir' = r.dst
       /\ pc' = IF r.ok THEN after.pc ELSE "done"
       /\ outcome' = IF r.ok THEN outcome ELSE Raise("OSError")
       /\ completed' = IF r.ok THEN Append(completed, "copy_build_output") ELSE completed
       /\ started' = IF r.ok THEN started \o after.started ELSE started
    /\ UNCHANGED <<inputs, builder_class, strategy, reports,
                   installed, installed_files, downloaded, local_plugin_dir_state, build_dir>>

\* main: module.exit_json(**result)
ExitJson ==
    /\ pc = "exit_json"
    /\ reports' = Append(reports, MainResult(params))
    /\ outcome' = [kind |-> "exit_json", detail |-> <<>>]
    /\ pc' = "done"
    /\ UNCHANGED <<inputs, host, builder_class, strategy, started, completed>>

Next ==
    \/ BuilderNew
    \/ BuilderInit
    \/ BuilderBuild
    \/ Wget
    \/ InstallRepoDeb
    \/ InstallOsPackages
    \/ InstallDev
    \/ InstallRuntime
    \/ GitClone
    \/ GitCheckout
    \/ Makedirs
    \/ BuildSh
    \/ Copytree
    \/ ExitJson

Spec == Init /\ [][Next]_vars

----------------------------------------------------------------------------
(* Properties *)

\* C1, as stated: the strategy chosen for a detected tag is RedHatStrategy
\* for (Linux, Centos), DebianStrategy for (Linux, Ubuntu), SuseStrategy for
\* (Linux, Opensuse) and UnimplementedStrategy for every other tag.
C1_AsStated ==
    strategy # None =>
        strategy = CASE platform = "Linux" /\ distribution = "Centos" -> "RedHatStrategy"
                     [] platform = "Linux" /\ distribution = "Ubuntu" -> "DebianStrategy"
                     [] platform = "Linux" /\ distribution = "Opensuse" -> "SuseStrategy"
                     [] OTHER -> "UnimplementedStrategy"

\* C1, amended: the strategy chosen for a detected tag is RedHatStrategy for
\* (Linux, Centos), DebianStrategy for (Linux, Ubuntu), SuseStrategy for
\* (Linux, "Opensuse ") -- the name with its trailing space -- and
\* UnimplementedStrategy for every other tag, (Linux, Opensuse) included;
\* the three supported tags select three distinct strategies.
C1_StrategySelection ==
    /\ strategy # None =>
        strategy = CASE platform = "Linux" /\ distribution = "Centos" -> "RedHatStrategy"
                     [] platform = "Linux" /\ distribution = "Ubuntu" -> "DebianStrategy"
                     [] platform = "Linux" /\ distribution = "Opensuse " -> "SuseStrategy"
                     [] OTHER -> "UnimplementedStrategy"
    /\ Cardinality({ strategy_class(load_platform_subclass("Linux", d)) :
                        d \in {"Centos", "Ubuntu", "Opensuse "} }) = 3

C1_Witness ==
    /\ platform = "Linux"
    /\ distribution = "Opensuse "
    /\ strategy = "SuseStrategy"

\* C2: while the detected tag equals no Builder subclass's (platform,
\* distribution), no step of the run invokes an external process or changes
\* the host, no build step is entered, and the run ends in an error.
C2_UnsupportedTouchesNothing ==
    [][ (\A i \in 1..Len(BuilderClasses) :
            <<platform, distribution>> #
                <<class_platform(BuilderClasses[i]), class_distribution(BuilderClasses[i])>>)
        => /\ UNCHANGED host
           /\ calls = <<>>
           /\ started' = <<>>
           /\ reports' = <<>>
           /\ pc' = "done" => outcome'.kind \in {"fail_json", "exception"} ]_vars

C2_Witness ==
    /\ platform = "Linux"
    /\ distribution = "Arch"
    /\ pc = "done"
    /\ calls = <<>>
    /\ outcome.kind = "exception"

\* C3: a finished run on an unsupported platform ended in fail_json with a
\* message that names the detected platform and, when known, the detected
\* distribution.
C3_UnsupportedFailsStructured ==
    ( /\ pc = "done"
      /\ \A i \in 1..Len(BuilderClasses) :
            <<platform, distribution>> #
                <<class_platform(BuilderClasses[i]), class_distribution(BuilderClasses[i])>> )
    => /\ outcome.kind = "fail_json"
       /\ platform \in Range(outcome.detail)
       /\ distribution # None => distribution \in Range(outcome.detail)

\* C4: the build steps are entered in the order install, fetch, build
\* script, collect, each at most once; a step is entered only after all
\* earlier ones returned; no invocation is repeated; a failed invocation is
\* the last one of the run, and a failure ends the run.
C4_StepOrder ==
    LET Order == <<"install_building_dependencies", "prepare_git_repository",
                   "build_plugin_package", "copy_build_output">>
        StepNo(cmd) == CASE cmd \in {"wget", "install_os_packages_from_files",
                                     "install_os_packages"} -> 1
                         [] cmd \in {"git clone", "git checkout"} -> 2
                         [] cmd \in {"makedirs", "build.sh"} -> 3
                         [] cmd = "copytree" -> 4
    IN  /\ Len(started) <= Len(Order)
        /\ started = SubSeq(Order, 1, Len(started))
        /\ Len(completed) <= Len(started)
        /\ completed = SubSeq(started, 1, Len(completed))
        /\ Len(started) <= Len(completed) + 1
        /\ \A i \in 1..Len(calls) :
              /\ StepNo(calls[i].cmd) <= Len(started)
              /\ \A j \in 1..Len(calls) :
                    /\ i < j => StepNo(calls[i].cmd) <= StepNo(calls[j].cmd)
                    /\ i < j => calls[i].ok
                    /\ (i # j /\ calls[i].cmd = calls[j].cmd) => calls[i].arg # calls[j].arg
        /\ outcome.kind \in {"fail_json", "exception"} => pc = "done"
        /\ (\E i \in 1..Len(calls) : ~calls[i].ok) =>
              /\ pc = "done"
              /\ Len(completed) < Len(started)

C4_Witness ==
    /\ pc = "done"
    /\ started = <<"install_building_dependencies", "prepare_git_repository">>
    /\ completed = <<"install_building_dependencies">>
    /\ outcome.kind = "fail_json"
    /\ calls[Len(calls)].cmd = "git checkout"

\* C5: at most one success result is reported; it is reported only after a
\* supported strategy completed all four steps with every invocation
\* successful, with changed = TRUE and the parameters of the run; a run
\* that failed anywhere reports none.
C5_SuccessOnlyAtEnd ==
    /\ Len(reports) <= 1
    /\ reports # <<>> =>
          /\ strategy \in {"RedHatStrategy", "DebianStrategy", "SuseStrategy"}
          /\ completed = <<"install_building_dependencies", "prepare_git_repository",
                           "build_plugin_package", "copy_build_output">>
          /\ \A i \in 1..Len(calls) : calls[i].ok
          /\ reports[1].changed = TRUE
          /\ reports[1].complex_args = params
          /\ outcome.kind = "exit_json"
    /\ ( \/ outcome.kind \in {"fail_json", "exception"}
         \/ \E i \in 1..Len(calls) : ~calls[i].ok ) => reports = <<>>

C5_Witness ==
    /\ pc = "done"
    /\ Len(reports) = 1
    /\ output_dir.exists

\* C6: with DebianStrategy every installation of the main dependency list
\* comes after a successful download and then a successful installation of
\* the repository descriptor, and none happens when the download failed;
\* with RedHatStrategy and SuseStrategy the descriptor is neither
\* downloaded nor installed.
C6_RepoDescriptorFirst ==
    LET IsDescriptorInstall(c) ==
            /\ c.cmd = "install_os_packages_from_files"
            /\ c.arg = <<GlobusRepoDeb>>
    IN  /\ strategy = "DebianStrategy" =>
              /\ \A i \in 1..Len(calls) :
                    calls[i].cmd = "install_os_packages" =>
                        \E j, k \in 1..Len(calls) :
                            /\ j < k /\ k < i
                            /\ calls[j].cmd = "wget" /\ calls[j].ok
                            /\ IsDescriptorInstall(calls[k]) /\ calls[k].ok
              /\ \A i \in 1..Len(calls) :
                    IsDescriptorInstall(calls[i]) =>
                        \E j \in 1..(i - 1) : calls[j].cmd = "wget" /\ calls[j].ok
              /\ (\E j \in 1..Len(calls) : calls[j].cmd = "wget" /\ ~calls[j].ok) =>
                    /\ \A i \in 1..Len(calls) : calls[i].cmd # "install_os_packages"
                    /\ installed = {}
              /\ installed # {} => GlobusRepoDeb \in installed_files
        /\ strategy \in {"RedHatStrategy", "SuseStrategy"} =>
              /\ \A i \in 1..Len(calls) :
                    calls[i].cmd # "wget" /\ ~IsDescriptorInstall(calls[i])
              /\ downloaded = {}
              /\ GlobusRepoDeb \notin installed_files

C6_Witness ==
    /\ strategy = "DebianStrategy"
    /\ Len(calls) >= 3
    /\ calls[1].cmd = "wget"
    /\ calls[3].cmd = "install_os_packages"
    /\ calls[3].ok

\* C7: with exactly one file for each marker, a completed install step has
\* installed exactly those two files, and the step never fails for a
\* missing file; with no file for a marker, no file is installed for that
\* marker (and none at all when the development file is missing), the step
\* fails where the lookup is made, and no later step is entered.
C7_DevAndRuntimePackages ==
    LET dev == { f \in Range(listing) : Contains(DevMarker, f) }
        runtime == { f \in Range(listing) : Contains(RuntimeMarker, f) }
        fromDir == { i \in 1..Len(calls) :
                        /\ calls[i].cmd = "install_os_packages_from_files"
                        /\ calls[i].arg # <<GlobusRepoDeb>> }
    IN  /\ (Cardinality(dev) = 1 /\ Cardinality(runtime) = 1) =>
              /\ outcome # Raise("IndexError")
              /\ "install_building_dependencies" \in Range(completed) =>
                    { f.name : f \in installed_files \ {GlobusRepoDeb} } = dev \cup runtime
        /\ dev = {} =>
              /\ fromDir = {}
              /\ pc \notin {"install_runtime"}
        /\ runtime = {} =>
              \A i \in fromDir : ~Contains(RuntimeMarker, calls[i].arg[1].name)
        /\ (dev = {} \/ runtime = {}) =>
              /\ completed = <<>>
              /\ Len(started) <= 1
              /\ \A i \in 1..Len(calls) :
                    calls[i].cmd \notin {"git clone", "git checkout", "makedirs",
                                         "build.sh", "copytree"}
              /\ reports = <<>>
              /\ (pc = "done" /\ started # <<>> /\ \A i \in 1..Len(calls) : calls[i].ok) =>
                    outcome = Raise("IndexError")

C7_Witness ==
    /\ pc = "done"
    /\ outcome = Raise("IndexError")
    /\ \E f \in installed_files : Contains(DevMarker, f.name)
    /\ \A f \in Range(listing) : ~Contains(RuntimeMarker, f)

\* C8: while ~/<plugin_name> exists and is non-empty, git clone fails and
\* ends the run through fail_json; git checkout, the creation of the build
\* directory, the build script and the copy of the output never happen.
C8_CloneIntoNonEmptyFails ==
    local_plugin_dir_state = "nonempty" =>
        /\ \A i \in 1..Len(calls) :
              /\ calls[i].cmd \notin {"git checkout", "makedirs", "build.sh", "copytree"}
              /\ calls[i].cmd = "git clone" => ~calls[i].ok /\ i = Len(calls)
        /\ (\E i \in 1..Len(calls) : calls[i].cmd = "git clone") =>
              /\ pc = "done"
              /\ outcome.kind = "fail_json"
        /\ pc \notin {"git_checkout", "makedirs", "build_sh", "copytree", "exit_json"}
        /\ "prepare_git_repository" \notin Range(completed)
        /\ "build_plugin_package" \notin Range(started)
        /\ ~build_dir.exists
        /\ reports = <<>>

C8_Witness ==
    /\ local_plugin_dir_state = "nonempty"
    /\ pc = "done"
    /\ calls # <<>>
    /\ calls[Len(calls)].cmd = "git clone"

\* C9: when copy_build_output starts with the output directory present,
\* the step fails, the output directory keeps exactly its contents, the
\* run ends there and no success result is reported.
C9_ExistingOutputUntouched ==
    [][ (pc = "copytree" /\ output_dir.exists)
        => /\ output_dir' = output_dir
           /\ pc' = "done"
           /\ outcome'.kind = "exception"
           /\ "copy_build_output" \notin Range(completed')
           /\ reports' = <<>> ]_vars

C9_Witness ==
    /\ pc = "done"
    /\ calls # <<>>
    /\ calls[Len(calls)].cmd = "copytree"
    /\ ~calls[Len(calls)].ok
    /\ build_dir = Dir({"plugin.deb"})
    /\ output_dir = Dir({"old.deb"})

\* C10: every file installed from the packages directory is the lexically
\* first of the listed files that match its marker.
C10_LexicallyFirstMatch ==
    \A i \in 1..Len(calls) :
        ( /\ calls[i].cmd = "install_os_packages_from_files"
          /\ calls[i].arg # <<GlobusRepoDeb>> ) =>
            LET f == calls[i].arg[1].name
                marker == IF Contains(DevMarker, f) THEN DevMarker ELSE RuntimeMarker
                Ord(c) == CASE c = "-" -> 45 [] c = "1" -> 49 [] c = "2" -> 50
                            [] c = "a" -> 97 [] c = "c" -> 99 [] c = "d" -> 100
                            [] c = "e" -> 101 [] c = "i" -> 105 [] c = "m" -> 109
                            [] c = "n" -> 110 [] c = "o" -> 111 [] c = "r" -> 114
                            [] c = "s" -> 115 [] c = "t" -> 116 [] c = "u" -> 117
                            [] c = "v" -> 118
                \* a < b on strings, by character code
                LexLess(a, b) ==
                    \E k \in 1..Len(b) :
                        /\ k <= Len(a) + 1
                        /\ \A j \in 1..(k - 1) : a[j] = b[j]
                        /\ \/ k = Len(a) + 1
                           \/ k <= Len(a) /\ Ord(a[k]) < Ord(b[k])
            IN  \A g \in Range(listing) :
                    (Contains(marker, g) /\ g # f) => LexLess(f, g)

====
